---- MODULE Spec2Model ----
(***************************************************************************)
(* Model of main.py: a tic-tac-toe game between a human (players[0], 'X')  *)
(* and a rule-based computer opponent (players[1], 'O').                   *)
(*                                                                         *)
(* game_board is the 3x3 list of lists of Board.__init__.  An unplayed     *)
(* cell holds its own index (the int 0..8 in the source); the model writes *)
(* that placeholder as the decimal string of the index, the same text the  *)
(* button of the cell shows, because cells are compared with the markers   *)
(* 'X' and 'O'.                                                            *)
(*                                                                         *)
(* A value that may be None (the result of find_winning_move and of        *)
(* get_computer_move) is the empty sequence for None and <<m>> for the     *)
(* int m.                                                                  *)
(***************************************************************************)
EXTENDS Integers, Sequences, FiniteSets, TLC

VARIABLES
    game_board,   \* Board.game_board: [0..2 -> [0..2 -> cell]]
    buttons,      \* text of Board.buttons[i][j]
    turn,         \* Board.turn (class attribute)
    gamestatus,   \* text of the label Board.gamestatus
    movestatus,   \* text of the label Board.movestatus
    starter,      \* the value random.randint(0, 1) gave Board.turn
    call,         \* history: what the last constructor/handler call did
    ret           \* history: the last function evaluated on a drawn board

vars == <<game_board, buttons, turn, gamestatus, movestatus, starter, call, ret>>

(***************************************************************************)
(* Bounds                                                                  *)
(***************************************************************************)
\* pressed() is called with positions from -MaxOutOfRange to 8+MaxOutOfRange
MaxOutOfRange == 10

Positions == (0 - MaxOutOfRange) .. (8 + MaxOutOfRange)

(***************************************************************************)
(* Values                                                                  *)
(***************************************************************************)
None == <<>>
Some(m) == <<m>>

\* Unwrap({f(x) : x \in {e}}) is f(x) with x the value of e: a local name
\* assigned once (x = e) and the code that then uses it.
Unwrap(singleton) == CHOOSE r \in singleton : TRUE

human == [marker |-> "X", is_human |-> TRUE, colour |-> "#8E44AD"]
computer == [marker |-> "O", is_human |-> FALSE, colour |-> "#3498DB"]
players == [i \in 0..1 |-> IF i = 0 THEN human ELSE computer]

Markers == {"X", "O"}

InitialBoard == [i \in 0..2 |-> [j \in 0..2 |-> ToString(i * 3 + j)]]

\* buttons[i][j] is created with text f'{i * 3 + j}'
create_buttons == [i \in 0..2 |-> [j \in 0..2 |-> ToString(i * 3 + j)]]

(***************************************************************************)
(* Board.is_winner, Board.is_tie, Board.game_has_ended                     *)
(***************************************************************************)
\* Mutant of is_winner: the second diagonal ends in the wrong corner.
is_winner_wrong_diagonal(board, player) ==
    LET mark == player.marker IN
    \/ \E i \in 0..2 : board[i][0] = mark /\ (board[i][1] = mark /\ board[i][2] = mark)
    \/ \E i \in 0..2 : board[0][i] = mark /\ (board[1][i] = mark /\ board[2][i] = mark)
    \/ board[0][0] = mark /\ (board[1][1] = mark /\ board[2][2] = mark)
    \/ board[0][2] = mark /\ (board[1][1] = mark /\ board[2][2] = mark)

is_winner(board, player) ==
    LET mark == player.marker IN
    \/ \E i \in 0..2 : board[i][0] = mark /\ (board[i][1] = mark /\ board[i][2] = mark)
    \/ \E i \in 0..2 : board[0][i] = mark /\ (board[1][i] = mark /\ board[2][i] = mark)
    \/ board[0][0] = mark /\ (board[1][1] = mark /\ board[2][2] = mark)
    \/ board[0][2] = mark /\ (board[1][1] = mark /\ board[2][0] = mark)

is_tie(board) == \A i \in 0..2 : \A j \in 0..2 : board[i][j] \in Markers

\* Mutant of game_has_ended: the loop returns after the first player.
game_has_ended_first_player(board) ==
    \/ is_winner(board, players[0])
    \/ is_tie(board)

game_has_ended(board) ==
    \/ \E k \in 0..1 : is_winner(board, players[k])
    \/ is_tie(board)

(***************************************************************************)
(* Board.is_position_valid.  The subscription game_board[position // 3]    *)
(* is evaluated before the range test: a row index outside -3..2 raises    *)
(* IndexError, a negative one in range counts from the end of the list.    *)
(***************************************************************************)
PyIndexInRange(i, n) == (0 - n) <= i /\ i < n
PyIndex(i, n) == IF i < 0 THEN i + n ELSE i

\* Mutant of is_position_valid: only the human's marker makes a cell invalid.
is_position_valid_own_marker(board, position) ==
    LET row == position \div 3
        col == position % 3
    IN  IF ~PyIndexInRange(row, 3) \/ ~PyIndexInRange(col, 3)
        THEN [raises |-> "IndexError", value |-> FALSE]
        ELSE [raises |-> "",
              value |-> board[PyIndex(row, 3)][PyIndex(col, 3)] # "X"
                        /\ (0 <= position /\ position <= 8)]

is_position_valid(board, position) ==
    LET row == position \div 3
        col == position % 3
    IN  IF ~PyIndexInRange(row, 3) \/ ~PyIndexInRange(col, 3)
        THEN [raises |-> "IndexError", value |-> FALSE]
        ELSE [raises |-> "",
              value |-> board[PyIndex(row, 3)][PyIndex(col, 3)] \notin Markers
                        /\ (0 <= position /\ position <= 8)]

(***************************************************************************)
(* find_winning_move                                                       *)
(***************************************************************************)
other_mark_of(mark) == IF mark = "O" THEN "X" ELSE IF mark = "X" THEN "O" ELSE ""

\* Mutant of scan_line: the third cell is not tested against the other marker.
scan_line_third_untested(mark, other_mark, a, b, c, ia, ib, ic) ==
    IF a = mark /\ b = mark THEN Some(ic)
    ELSE IF a = mark /\ c = mark THEN Some(ib)
    ELSE IF b = mark /\ c = mark THEN Some(ia)
    ELSE None

\* Mutant of scan_line: the case "first cell free, the two others held" is missing.
scan_line_first_cell_missed(mark, other_mark, a, b, c, ia, ib, ic) ==
    IF a = mark /\ (b = mark /\ c # other_mark) THEN Some(ic)
    ELSE IF a = mark /\ (c = mark /\ b # other_mark) THEN Some(ib)
    ELSE None

\* One line a, b, c (cell values) whose cells have the indices ia, ib, ic:
\* the two nested ifs of one loop iteration, or of one diagonal block.
scan_line(mark, other_mark, a, b, c, ia, ib, ic) ==
    IF a = mark /\ (b = mark /\ c # other_mark) THEN Some(ic)
    ELSE IF a = mark /\ (c = mark /\ b # other_mark) THEN Some(ib)
    ELSE IF a # other_mark /\ (b = mark /\ c = mark) THEN Some(ia)
    ELSE None

\* Mutant of line_scans: the columns are scanned before the rows.
line_scans_columns_first(player, board) ==
    LET mark == player.marker
        other_mark == other_mark_of(mark)
        horizontal == [i \in 1..3 |->
            scan_line(mark, other_mark, board[i-1][0], board[i-1][1], board[i-1][2],
                      (i-1) * 3, (i-1) * 3 + 1, (i-1) * 3 + 2)]
        vertical == [i \in 1..3 |->
            scan_line(mark, other_mark, board[0][i-1], board[1][i-1], board[2][i-1],
                      (i-1), (i-1) + 3, (i-1) + 6)]
        diagonal == <<
            scan_line(mark, other_mark, board[0][0], board[1][1], board[2][2], 0, 4, 8),
            scan_line(mark, other_mark, board[0][2], board[1][1], board[2][0], 2, 4, 6) >>
    IN  vertical \o horizontal \o diagonal

\* The results of the 8 line scans in the order the function runs them.
line_scans(player, board) ==
    LET mark == player.marker
        other_mark == other_mark_of(mark)
        horizontal == [i \in 1..3 |->
            scan_line(mark, other_mark, board[i-1][0], board[i-1][1], board[i-1][2],
                      (i-1) * 3, (i-1) * 3 + 1, (i-1) * 3 + 2)]
        vertical == [i \in 1..3 |->
            scan_line(mark, other_mark, board[0][i-1], board[1][i-1], board[2][i-1],
                      (i-1), (i-1) + 3, (i-1) + 6)]
        diagonal == <<
            scan_line(mark, other_mark, board[0][0], board[1][1], board[2][2], 0, 4, 8),
            scan_line(mark, other_mark, board[0][2], board[1][1], board[2][0], 2, 4, 6) >>
    IN  horizontal \o vertical \o diagonal

\* The first result that is not None, None when there is none (the function
\* falls off its end).
first_return(results) ==
    IF \E k \in 1..Len(results) : results[k] # None
    THEN results[CHOOSE k \in 1..Len(results) :
                     /\ results[k] # None
                     /\ \A h \in 1..(k-1) : results[h] = None]
    ELSE None

find_winning_move(player, board) == first_return(line_scans(player, board))

(***************************************************************************)
(* Player.get_computer_move                                                *)
(***************************************************************************)
\* Mutant of cell_free: only the computer's marker makes a cell taken.
cell_free_own_marker(board, position) == board[position \div 3][position % 3] # "O"

cell_free(board, position) == board[position \div 3][position % 3] \notin Markers

\* for position in <order>: if the cell is free: move = position; break
first_free(board, order) ==
    first_return([k \in 1..Len(order) |->
                     IF cell_free(board, order[k]) THEN Some(order[k]) ELSE None])

\* Mutant of corner_rule: the corners scanned clockwise.
corner_rule_clockwise(board) == first_free(board, <<0, 2, 8, 6>>)

corner_rule(board) == first_free(board, <<0, 2, 6, 8>>)

center_rule(board) == IF board[1][1] \notin Markers THEN Some(4) ELSE None

side_rule(board) == first_free(board, <<1, 3, 5, 7>>)

\* Mutant of get_computer_move: the centre is tried before the corners.
get_computer_move_center_first(self, board, other_player) ==
    LET m1 == find_winning_move(self, board)
        m2 == IF m1 = None THEN find_winning_move(other_player, board) ELSE m1
        m3 == IF m2 = None THEN center_rule(board) ELSE m2
        m4 == IF m3 = None THEN corner_rule(board) ELSE m3
        m5 == IF m4 = None THEN side_rule(board) ELSE m4
    IN  m5

\* Mutant of get_computer_move: the block search runs before the win search.
get_computer_move_block_first(self, board, other_player) ==
    LET m1 == find_winning_move(other_player, board)
        m2 == IF m1 = None THEN find_winning_move(self, board) ELSE m1
        m3 == IF m2 = None THEN corner_rule(board) ELSE m2
        m4 == IF m3 = None THEN center_rule(board) ELSE m3
        m5 == IF m4 = None THEN side_rule(board) ELSE m4
    IN  m5

\* Mutant of get_computer_move: the block search is left out.
get_computer_move_no_block(self, board, other_player) ==
    LET m1 == find_winning_move(self, board)
        m3 == IF m1 = None THEN corner_rule(board) ELSE m1
        m4 == IF m3 = None THEN center_rule(board) ELSE m3
        m5 == IF m4 = None THEN side_rule(board) ELSE m4
    IN  m5

get_computer_move(self, board, other_player) ==
    LET m1 == find_winning_move(self, board)
        m2 == IF m1 = None THEN find_winning_move(other_player, board) ELSE m1
        m3 == IF m2 = None THEN corner_rule(board) ELSE m2
        m4 == IF m3 = None THEN center_rule(board) ELSE m3
        m5 == IF m4 = None THEN side_rule(board) ELSE m4
    IN  m5

(***************************************************************************)
(* Board.make_move.  st is the object state together with the history of   *)
(* the running call: st.moves lists the make_move calls that wrote a cell, *)
(* st.asks the get_computer_move calls, st.error the exception raised.     *)
(***************************************************************************)
NoHistory == [error |-> "", moves |-> <<>>, asks |-> <<>>]

move_text(position) ==
    "Computer's move is "
        \o (IF position = None THEN "None" ELSE ToString(position[1])) \o "."

\* Mutant of report_outcome: the tie is tested before the winners.
report_outcome_tie_first(st, player) ==
    IF is_tie(st.game_board)
    THEN [st EXCEPT !.gamestatus = "Game ended with a tie."]
    ELSE IF is_winner(st.game_board, players[0])
    THEN [st EXCEPT !.gamestatus = "You won!"]
    ELSE IF is_winner(st.game_board, players[1])
    THEN [st EXCEPT !.gamestatus = "You lost!"]
    ELSE IF player = players[1] THEN [st EXCEPT !.turn = 0]
    ELSE IF player = players[0] THEN [st EXCEPT !.turn = 1]
    ELSE st

\* Mutant of report_outcome: the turn goes back to the human after every move.
report_outcome_turn_kept(st, player) ==
    IF is_winner(st.game_board, players[0])
    THEN [st EXCEPT !.gamestatus = "You won!"]
    ELSE IF is_winner(st.game_board, players[1])
    THEN [st EXCEPT !.gamestatus = "You lost!"]
    ELSE IF is_tie(st.game_board)
    THEN [st EXCEPT !.gamestatus = "Game ended with a tie."]
    ELSE IF player = players[1] THEN [st EXCEPT !.turn = 0]
    ELSE IF player = players[0] THEN [st EXCEPT !.turn = 0]
    ELSE st

\* Mutant of report_outcome: the turn is not given back after the computer's move.
report_outcome_turn_not_returned(st, player) ==
    IF is_winner(st.game_board, players[0])
    THEN [st EXCEPT !.gamestatus = "You won!"]
    ELSE IF is_winner(st.game_board, players[1])
    THEN [st EXCEPT !.gamestatus = "You lost!"]
    ELSE IF is_tie(st.game_board)
    THEN [st EXCEPT !.gamestatus = "Game ended with a tie."]
    ELSE IF player = players[0] THEN [st EXCEPT !.turn = 1]
    ELSE st

\* The end of make_move: report a win or a tie and return, else change the turn.
report_outcome(st, player) ==
    IF is_winner(st.game_board, players[0])
    THEN [st EXCEPT !.gamestatus = "You won!"]
    ELSE IF is_winner(st.game_board, players[1])
    THEN [st EXCEPT !.gamestatus = "You lost!"]
    ELSE IF is_tie(st.game_board)
    THEN [st EXCEPT !.gamestatus = "Game ended with a tie."]
    ELSE IF player = players[1] THEN [st EXCEPT !.turn = 0]
    ELSE IF player = players[0] THEN [st EXCEPT !.turn = 1]
    ELSE st

make_move(st, position, player) ==
    LET shown == IF ~player.is_human
                 THEN [st EXCEPT !.movestatus = move_text(position)]
                 ELSE st
    IN  IF position = None
        THEN [shown EXCEPT !.error = "TypeError"]   \* None // 3
        ELSE
        LET p == position[1]
            marked == [shown EXCEPT
                         !.game_board[p \div 3][p % 3] = player.marker,
                         !.buttons[p \div 3][p % 3] = player.marker,
                         !.moves = Append(@, [player |-> player,
                                              position |-> p,
                                              board |-> st.game_board])]
        IN  Unwrap({report_outcome(written, player) : written \in {marked}})

\* get_computer_move called on the board of st, recorded in the history
ask_computer(st, self, other_player) ==
    LET move == get_computer_move(self, st.game_board, other_player)
    IN  [st EXCEPT !.asks = Append(@, [board |-> st.game_board, move |-> move])]

last_move(st) == st.asks[Len(st.asks)].move

(***************************************************************************)
(* Board.__init__ with Board.turn = t                                      *)
(***************************************************************************)
board_init(t) ==
    LET created == [game_board |-> InitialBoard,
                    buttons    |-> create_buttons,
                    turn       |-> t,
                    gamestatus |-> "It's your turn.",
                    movestatus |-> "",
                    error      |-> NoHistory.error,
                    moves      |-> NoHistory.moves,
                    asks       |-> NoHistory.asks]
        current_player == players[t]
    IN  IF ~current_player.is_human
        THEN Unwrap({make_move(asked, last_move(asked), current_player) :
                        asked \in {ask_computer(created, current_player, players[0])}})
        ELSE [created EXCEPT !.gamestatus = "Game has started.\nIt's your turn."]

(***************************************************************************)
(* Board.pressed                                                           *)
(***************************************************************************)
computer_reply(st) ==
    LET announced == [st EXCEPT !.gamestatus = "It's computer's turn."]
        again(moved) ==
            IF moved.error # "" THEN moved
            ELSE IF ~game_has_ended(moved.game_board)
            THEN [moved EXCEPT !.gamestatus = "It's your turn."]
            ELSE moved
    IN  Unwrap({again(moved) :
                   moved \in {make_move(asked, last_move(asked), players[1]) :
                                 asked \in {ask_computer(announced, players[1],
                                                         players[0])}}})

\* The body of "if not self.game_has_ended():"
pressed_in_progress(st, position) ==
    LET valid == is_position_valid(st.game_board, position)
        reply(moved) ==
            IF ~game_has_ended(moved.game_board)
            THEN IF moved.turn = 1 THEN computer_reply(moved) ELSE moved
            ELSE moved
    IN  IF valid.raises # "" THEN [st EXCEPT !.error = valid.raises]
        ELSE IF valid.value
        THEN Unwrap({reply(moved) :
                        moved \in {make_move(st, Some(position), players[0])}})
        ELSE st

\* Mutant of pressed: the test that the game has not ended is left out.
pressed_unguarded(st, position) == pressed_in_progress(st, position)

pressed(st, position) ==
    IF ~game_has_ended(st.game_board) THEN pressed_in_progress(st, position) ELSE st

(***************************************************************************)
(* The state machine                                                       *)
(***************************************************************************)
Self == [game_board |-> game_board,
         buttons    |-> buttons,
         turn       |-> turn,
         gamestatus |-> gamestatus,
         movestatus |-> movestatus,
         error      |-> NoHistory.error,
         moves      |-> NoHistory.moves,
         asks       |-> NoHistory.asks]

NoRet == [fn |-> "", player |-> 0, bool |-> FALSE, move |-> None]

\* The state after the module body has run: players created, Board constructed.
Init ==
    \E t \in 0..1 : \E st \in {board_init(t)} :
        /\ game_board = st.game_board
        /\ buttons = st.buttons
        /\ turn = st.turn
        /\ gamestatus = st.gamestatus
        /\ movestatus = st.movestatus
        /\ starter = t
        /\ call = [op |-> "__init__", position |-> 0, error |-> st.error,
                   moves |-> st.moves, asks |-> st.asks]
        /\ ret = NoRet

Pressed(position) ==
    \E st \in {pressed(Self, position)} :
    /\ game_board' = st.game_board
    /\ buttons' = st.buttons
    /\ turn' = st.turn
    /\ gamestatus' = st.gamestatus
    /\ movestatus' = st.movestatus
    /\ call' = [op |-> "pressed", position |-> position, error |-> st.error,
                moves |-> st.moves, asks |-> st.asks]
    /\ UNCHANGED <<starter, ret>>

\* A click on the button of cell i * 3 + j runs pressed(i * 3 + j).
Click == \E i \in 0..2 : \E j \in 0..2 : Pressed(i * 3 + j)

Next == Click

Spec == Init /\ [][Next]_vars

\* pressed called with any integer position, in or out of the range of the buttons
Call == \E position \in Positions : Pressed(position)

NextCalls == Call

SpecCalls == Init /\ [][NextCalls]_vars

(***************************************************************************)
(* The functions evaluated on every 3x3 board of cells in                  *)
(* {placeholder, 'X', 'O'}                                                 *)
(***************************************************************************)
\* The values a cell with index p can hold
Cells(p) == Markers \cup {ToString(p)}

InitBoards ==
    /\ \E cells \in Cells(0) \X Cells(1) \X Cells(2) \X Cells(3) \X Cells(4)
                    \X Cells(5) \X Cells(6) \X Cells(7) \X Cells(8) :
          game_board = [i \in 0..2 |-> [j \in 0..2 |-> cells[i * 3 + j + 1]]]
    /\ buttons = game_board
    /\ turn = 0
    /\ gamestatus = "It's your turn."
    /\ movestatus = ""
    /\ starter = 0
    /\ call = [op |-> "", position |-> 0, error |-> "", moves |-> <<>>, asks |-> <<>>]
    /\ ret = NoRet

Returned(r) ==
    /\ ret' = r
    /\ UNCHANGED <<game_board, buttons, turn, gamestatus, movestatus, starter, call>>

EvalIsWinner ==
    \E k \in 0..1 :
        Returned([NoRet EXCEPT !.fn = "is_winner", !.player = k,
                               !.bool = is_winner(game_board, players[k])])

EvalIsTie ==
    Returned([NoRet EXCEPT !.fn = "is_tie", !.bool = is_tie(game_board)])

EvalGameHasEnded ==
    Returned([NoRet EXCEPT !.fn = "game_has_ended", !.bool = game_has_ended(game_board)])

EvalFindWinningMove ==
    \E k \in 0..1 :
        Returned([NoRet EXCEPT !.fn = "find_winning_move", !.player = k,
                               !.move = find_winning_move(players[k], game_board)])

EvalGetComputerMove ==
    \E k \in 0..1 :
        Returned([NoRet EXCEPT !.fn = "get_computer_move", !.player = k,
                               !.move = get_computer_move(players[k], game_board,
                                                          players[1 - k])])

NextBoards ==
    \/ EvalIsWinner
    \/ EvalIsTie
    \/ EvalGameHasEnded
    \/ EvalFindWinningMove
    \/ EvalGetComputerMove

SpecBoards == InitBoards /\ [][NextBoards]_vars

(***************************************************************************)
(* Vocabulary of the properties: cells by flattened index, the 8 lines     *)
(***************************************************************************)
Lines == {{0, 1, 2}, {3, 4, 5}, {6, 7, 8},
          {0, 3, 6}, {1, 4, 7}, {2, 5, 8},
          {0, 4, 8}, {2, 4, 6}}

At(board, p) == board[p \div 3][p % 3]

Marked(board, p) == At(board, p) = "X" \/ At(board, p) = "O"

HasLine(board, mark) == \E l \in Lines : \A p \in l : At(board, p) = mark

Full(board) == \A p \in 0..8 : Marked(board, p)

Count(board, mark) == Cardinality({p \in 0..8 : At(board, p) = mark})

\* The empty cells that complete a line in which mark holds the other two cells
CompletingCells(board, mark) ==
    {p \in 0..8 : /\ ~Marked(board, p)
                  /\ \E l \in Lines : p \in l /\ \A q \in l \ {p} : At(board, q) = mark}

\* The get_computer_move calls of the last constructor or handler call
Asks == {call.asks[k] : k \in 1..Len(call.asks)}

(***************************************************************************)
(* C1: whenever the computer is asked to move, get_computer_move returns   *)
(* an integer 0..8 of a cell that holds neither 'X' nor 'O'; never None,   *)
(* never an occupied cell.                                                 *)
(***************************************************************************)
C1_MoveIsEmptyCell ==
    \A a \in Asks :
        /\ a.move # None
        /\ a.move[1] \in 0..8
        /\ ~Marked(a.board, a.move[1])

\* the computer was asked on a board with a single free cell, inside pressed
C1_Witness ==
    /\ call.op = "pressed"
    /\ \E a \in Asks : Cardinality({p \in 0..8 : ~Marked(a.board, p)}) = 1
    /\ call.error = ""

(***************************************************************************)
(* C2: when the computer is asked to move and it has a line with two of    *)
(* its markers and an empty third cell, it plays a completing cell: after  *)
(* the move the computer is the winner and the game has ended, also when   *)
(* the human has such a line too.                                          *)
(***************************************************************************)
C2_WinFirst ==
    \A a \in Asks :
        CompletingCells(a.board, "O") # {} =>
            /\ a.move # None
            /\ a.move[1] \in CompletingCells(a.board, "O")
            /\ At(game_board, a.move[1]) = "O"
            /\ HasLine(game_board, "O")
            /\ is_winner(game_board, computer)
            /\ game_has_ended(game_board)

\* both players had a completing cell when the computer was asked
C2_Witness ==
    \E a \in Asks :
        /\ CompletingCells(a.board, "O") # {}
        /\ CompletingCells(a.board, "X") # {}
        /\ HasLine(game_board, "O")

(***************************************************************************)
(* C3: when the computer is asked to move, has no completing cell of its   *)
(* own and the human has one, the computer plays an empty cell that would  *)
(* have completed a human line.                                            *)
(***************************************************************************)
C3_BlockSecond ==
    \A a \in Asks :
        (CompletingCells(a.board, "O") = {} /\ CompletingCells(a.board, "X") # {}) =>
            /\ a.move # None
            /\ a.move[1] \in CompletingCells(a.board, "X")
            /\ At(game_board, a.move[1]) = "O"

C3_Witness ==
    \E a \in Asks :
        /\ CompletingCells(a.board, "O") = {}
        /\ CompletingCells(a.board, "X") # {}
        /\ At(game_board, a.move[1]) = "O"

(***************************************************************************)
(* C4: when the computer is asked to move and neither player has a         *)
(* completing cell, it plays the first empty cell of 0, 2, 6, 8; with all  *)
(* corners occupied, 4 when 4 is empty; otherwise the first empty cell of  *)
(* 1, 3, 5, 7.  When the computer opens on the empty board it plays 0.     *)
(***************************************************************************)
FirstEmpty(board, a, b, c, d) ==
    IF ~Marked(board, a) THEN a
    ELSE IF ~Marked(board, b) THEN b
    ELSE IF ~Marked(board, c) THEN c
    ELSE d

Fallback(board) ==
    IF \E p \in {0, 2, 6, 8} : ~Marked(board, p) THEN FirstEmpty(board, 0, 2, 6, 8)
    ELSE IF ~Marked(board, 4) THEN 4
    ELSE FirstEmpty(board, 1, 3, 5, 7)

C4_PositionalFallback ==
    /\ \A a \in Asks :
          (CompletingCells(a.board, "O") = {} /\ CompletingCells(a.board, "X") = {}) =>
              /\ a.move = <<Fallback(a.board)>>
              /\ At(game_board, Fallback(a.board)) = "O"
    /\ (call.op = "__init__" /\ starter = 1) =>
          /\ Len(call.asks) = 1
          /\ call.asks[1].board = InitialBoard
          /\ call.asks[1].move = <<0>>
          /\ At(game_board, 0) = "O"

\* no completing cell for either player, corners 0 and 2 taken: the move is 6 or 8
C4_Witness ==
    \E a \in Asks :
        /\ CompletingCells(a.board, "O") = {} /\ CompletingCells(a.board, "X") = {}
        /\ Marked(a.board, 0) /\ Marked(a.board, 2)
        /\ a.move[1] \in {6, 8}
        /\ At(game_board, a.move[1]) = "O"

\* the same with all four corners taken: the move is the centre
C4_CentreReached ==
    \E a \in Asks :
        /\ CompletingCells(a.board, "O") = {} /\ CompletingCells(a.board, "X") = {}
        /\ \A p \in {0, 2, 6, 8} : Marked(a.board, p)
        /\ ~Marked(a.board, 4)

\* the same with the corners and the centre taken: the move is a side
C4_SideReached ==
    \E a \in Asks :
        /\ CompletingCells(a.board, "O") = {} /\ CompletingCells(a.board, "X") = {}
        /\ \A p \in {0, 2, 6, 8, 4} : Marked(a.board, p)

(***************************************************************************)
(* C5: once game_has_ended() is true, every pressed(position), position    *)
(* 0..8, leaves the board, the turn and the outcome unchanged and asks for *)
(* no computer move; game_has_ended() never goes back to false.            *)
(***************************************************************************)
C5_TerminalAbsorbing ==
    [][game_has_ended(game_board) =>
          /\ UNCHANGED <<game_board, buttons, turn, gamestatus, movestatus>>
          /\ call'.moves = <<>>
          /\ call'.asks = <<>>
          /\ game_has_ended(game_board')]_vars

\* a free cell was clicked after the end of the game
C5_Witness ==
    /\ game_has_ended(game_board)
    /\ call.op = "pressed"
    /\ call.moves = <<>>
    /\ ~Marked(game_board, call.position)

(***************************************************************************)
(* C6: pressed(position) on a cell that holds 'X' or 'O' changes no cell,  *)
(* not the turn, not the status, and the computer does not move; this      *)
(* holds at every click, so also when the click is repeated.               *)
(***************************************************************************)
C6_OccupiedClickNoOp ==
    [][\A p \in 0..8 :
          (call'.op = "pressed" /\ call'.position = p /\ Marked(game_board, p)) =>
              /\ UNCHANGED <<game_board, buttons, turn, gamestatus, movestatus>>
              /\ call'.moves = <<>>
              /\ call'.asks = <<>>
              /\ call'.error = ""]_vars

\* a cell of the computer was clicked while the game was in progress
C6_Witness ==
    /\ call.op = "pressed"
    /\ ~game_has_ended(game_board)
    /\ At(game_board, call.position) = "O"
    /\ call.moves = <<>>

(***************************************************************************)
(* C7: pressed with a position outside 0..8 is ignored: no cell is         *)
(* written, the computer is not asked and no error is raised.              *)
(***************************************************************************)
C7_OutOfRangeIgnored ==
    (call.op = "pressed" /\ call.position \notin 0..8) =>
        /\ call.error = ""
        /\ call.moves = <<>>
        /\ call.asks = <<>>

(***************************************************************************)
(* C8: on every board, is_winner(player) is true exactly when one of the   *)
(* 8 lines holds the player's marker in its three cells, is_tie() exactly  *)
(* when the nine cells are marked, game_has_ended() exactly when a player  *)
(* is a winner or the nine cells are marked.                               *)
(***************************************************************************)
C8_DetectionExact ==
    /\ ret.fn = "is_winner" =>
          (ret.bool <=> HasLine(game_board, players[ret.player].marker))
    /\ ret.fn = "is_tie" => (ret.bool <=> Full(game_board))
    /\ ret.fn = "game_has_ended" =>
          (ret.bool <=> (HasLine(game_board, "X") \/ HasLine(game_board, "O")
                         \/ Full(game_board)))

\* is_winner is true of the computer, which holds the line 2, 4, 6 and nothing else
C8_Witness ==
    /\ ret.fn = "is_winner" /\ ret.player = 1 /\ ret.bool
    /\ \A p \in {2, 4, 6} : At(game_board, p) = "O"
    /\ Count(game_board, "O") = 3

(***************************************************************************)
(* C9: the status is 'You won!' exactly when the human has three in a      *)
(* line, 'You lost!' exactly when the computer has, and 'Game ended with   *)
(* a tie.' exactly when the nine cells are marked and nobody has a line;   *)
(* a ninth move that completes a line is a win, not a tie.                 *)
(***************************************************************************)
C9_WinBeforeTie ==
    /\ gamestatus = "You won!" <=> HasLine(game_board, "X")
    /\ gamestatus = "You lost!" <=> HasLine(game_board, "O")
    /\ gamestatus = "Game ended with a tie." <=>
          (Full(game_board) /\ ~HasLine(game_board, "X") /\ ~HasLine(game_board, "O"))

\* the ninth move completed a line
C9_Witness ==
    /\ Full(game_board)
    /\ HasLine(game_board, "X") \/ HasLine(game_board, "O")
    /\ call.moves # <<>>
    /\ LET last == call.moves[Len(call.moves)]
       IN  ~HasLine(last.board, "X") /\ ~HasLine(last.board, "O")
    /\ gamestatus \in {"You won!", "You lost!"}

(***************************************************************************)
(* C10: an accepted click that does not end the game is followed in the    *)
(* same pressed call by exactly one computer move, one that ends the game  *)
(* by none; #X - #O is 0 or 1 when the human started and #O - #X is 0 or   *)
(* 1 when the computer started.                                            *)
(***************************************************************************)
C10_Alternation ==
    /\ call.op = "pressed" =>
          /\ Len(call.moves) <= 2
          /\ Len(call.moves) = Len(call.asks) + (IF call.moves = <<>> THEN 0 ELSE 1)
          /\ Len(call.moves) >= 1 => call.moves[1].player = human
          /\ Len(call.moves) = 1 => game_has_ended(game_board)
          /\ Len(call.moves) = 2 =>
                /\ call.moves[2].player = computer
                /\ ~game_has_ended(call.moves[2].board)
    /\ starter = 0 => Count(game_board, "X") - Count(game_board, "O") \in {0, 1}
    /\ starter = 1 => Count(game_board, "O") - Count(game_board, "X") \in {0, 1}

\* a click was answered by the computer and the game goes on
C10_Witness ==
    /\ call.op = "pressed"
    /\ Len(call.moves) = 2
    /\ call.moves[1].player = human /\ call.moves[2].player = computer
    /\ ~game_has_ended(game_board)

\* a click ended the game and the computer did not answer
C10_EndingClick ==
    /\ call.op = "pressed"
    /\ Len(call.moves) = 1
    /\ call.asks = <<>>
    /\ game_has_ended(game_board)

(***************************************************************************)
(* C11: from a fresh game there is a sequence of clicks that reaches a     *)
(* state where the human has three in a line: "the human never wins" is    *)
(* not an invariant.                                                       *)
(***************************************************************************)
\* Some sequence of clicks on the buttons leads from st to a board on which
\* is_winner(human) is true.
RECURSIVE CanBeBeaten(_)
CanBeBeaten(st) ==
    \/ is_winner(st.game_board, human)
    \/ /\ ~game_has_ended(st.game_board)
       /\ \E p \in 0..8 :
             /\ ~Marked(st.game_board, p)
             /\ \E next \in {pressed(st, p)} :
                   /\ next.game_board # st.game_board
                   /\ CanBeBeaten(next)

\* Whichever player the coin flip makes the starter, the human can win.
C11_HumanCanWin == call.op = "__init__" => CanBeBeaten(Self)

\* the human has won
C11_Witness ==
    /\ HasLine(game_board, "X")
    /\ is_winner(game_board, human)
    /\ gamestatus = "You won!"
    /\ call.op = "pressed" /\ Len(call.moves) = 1

(***************************************************************************)
(* C12: every accepted click raises the number of marked cells by 1 or 2,  *)
(* the number never exceeds 9, and if the human keeps clicking some empty  *)
(* cell while the game is in progress, game_has_ended() becomes true,      *)
(* after at most 5 accepted clicks.                                        *)
(***************************************************************************)
MarkedCount(board) == Cardinality({p \in 0..8 : Marked(board, p)})

\* The human clicks an empty cell of a game in progress.
ClickEmpty ==
    \E i \in 0..2 : \E j \in 0..2 :
        /\ ~game_has_ended(game_board)
        /\ ~Marked(game_board, i * 3 + j)
        /\ Pressed(i * 3 + j)

\* The clicks of Spec, with a human who does not stop clicking empty cells
\* before the end of the game.
SpecFair == Spec /\ WF_vars(ClickEmpty)

\* An accepted click is a pressed call that made the human's move; the
\* accepted clicks so far are the 'X' on the board.
C12_Terminates ==
    /\ [][(call'.moves # <<>>) =>
             MarkedCount(game_board') - MarkedCount(game_board) \in {1, 2}]_vars
    /\ [](MarkedCount(game_board) <= 9)
    /\ [](Count(game_board, "X") <= 5)
    /\ [](Count(game_board, "X") = 5 => game_has_ended(game_board))
    /\ <>game_has_ended(game_board)

\* a game that ended with the fifth accepted click
C12_Witness ==
    /\ game_has_ended(game_board)
    /\ Count(game_board, "X") = 5
    /\ call.op = "pressed" /\ Len(call.moves) = 1
    /\ MarkedCount(game_board) = 9

(***************************************************************************)
(* C13: each move, human or computer, changes exactly one cell, from empty *)
(* to the mover's marker, and leaves the other eight unchanged; a cell     *)
(* that holds 'X' or 'O' keeps that marker in every later state.           *)
(***************************************************************************)
\* b2 is b1 with the one empty cell p set to mark
OneCellWritten(b1, b2, p, mark) ==
    /\ ~Marked(b1, p)
    /\ At(b2, p) = mark
    /\ \A q \in 0..8 \ {p} : At(b2, q) = At(b1, q)

\* The moves of one call lead from the board `from` to the board `to`, each
\* writing one empty cell with its player's marker.
WriteOnceMoves(moves, from, to) ==
    /\ moves # <<>> => moves[1].board = from
    /\ moves = <<>> => to = from
    /\ \A k \in 1..Len(moves) :
          /\ moves[k].position \in 0..8
          /\ moves[k].player \in {human, computer}
          /\ OneCellWritten(moves[k].board,
                            IF k < Len(moves) THEN moves[k + 1].board ELSE to,
                            moves[k].position, moves[k].player.marker)

C13_WriteOnce ==
    /\ [](call.op = "__init__" => WriteOnceMoves(call.moves, InitialBoard, game_board))
    /\ [][/\ WriteOnceMoves(call'.moves, game_board, game_board')
          /\ \A p \in 0..8 :
                Marked(game_board, p) => At(game_board', p) = At(game_board, p)]_vars

\* a call wrote an 'X' and then an 'O', and seven cells were left alone
C13_Witness ==
    /\ call.op = "pressed"
    /\ Len(call.moves) = 2
    /\ At(game_board, call.moves[1].position) = "X"
    /\ At(game_board, call.moves[2].position) = "O"
    /\ Cardinality({p \in 0..8 : At(game_board, p) = At(call.moves[1].board, p)}) = 7

(***************************************************************************)
(* C14: no move completes two lines at once: no reachable board has two    *)
(* distinct lines fully held by the same marker.                           *)
(***************************************************************************)
LinesHeld(board, mark) == {l \in Lines : \A p \in l : At(board, p) = mark}

C14_OneLinePerMove ==
    \A mark \in Markers : Cardinality(LinesHeld(game_board, mark)) <= 1

\* the last move completed a line, and only one
C14_Witness ==
    /\ call.moves # <<>>
    /\ LET last == call.moves[Len(call.moves)]
       IN  /\ LinesHeld(last.board, last.player.marker) = {}
           /\ Cardinality(LinesHeld(game_board, last.player.marker)) = 1

(***************************************************************************)
(* C15: find_winning_move scans the rows top to bottom, then the columns   *)
(* left to right, then the diagonal 0-4-8, then the diagonal 2-4-6: on a   *)
(* board of a game in progress (no line complete) where the searched       *)
(* marker has two cells and an empty third in several lines, it returns    *)
(* the completing cell of the first such line in that order.               *)
(***************************************************************************)
ScanOrder == << <<0, 1, 2>>, <<3, 4, 5>>, <<6, 7, 8>>,
                <<0, 3, 6>>, <<1, 4, 7>>, <<2, 5, 8>>,
                <<0, 4, 8>>, <<2, 4, 6>> >>

\* mark holds two cells of the line and the third is empty
OpenLine(board, line, mark) ==
    /\ Cardinality({k \in 1..3 : At(board, line[k]) = mark}) = 2
    /\ Cardinality({k \in 1..3 : ~Marked(board, line[k])}) = 1

OpenLines(board, mark) == {n \in 1..8 : OpenLine(board, ScanOrder[n], mark)}

EmptyCellOf(board, line) == line[CHOOSE k \in 1..3 : ~Marked(board, line[k])]

FirstOpenLine(board, mark) ==
    CHOOSE n \in OpenLines(board, mark) : \A m \in OpenLines(board, mark) : n <= m

NoLineComplete(board) == ~HasLine(board, "X") /\ ~HasLine(board, "O")

C15_ScanOrder ==
    (/\ ret.fn = "find_winning_move"
     /\ NoLineComplete(game_board)
     /\ OpenLines(game_board, players[ret.player].marker) # {}) =>
        ret.move = <<EmptyCellOf(game_board,
                        ScanOrder[FirstOpenLine(game_board, players[ret.player].marker)])>>

\* the human holds 0, 6 and 8 with 3 and 7 empty: the search returns 7, not 3
C15_Witness ==
    /\ ret.fn = "find_winning_move" /\ ret.player = 0
    /\ NoLineComplete(game_board)
    /\ \A p \in {0, 6, 8} : At(game_board, p) = "X"
    /\ ~Marked(game_board, 3) /\ ~Marked(game_board, 7)
    /\ ret.move = <<7>>

(***************************************************************************)
(* C16 as amended: the block search is complete.  On every board with no   *)
(* line complete where the searched player has two markers in a line and   *)
(* the third cell empty, find_winning_move returns a cell that completes   *)
(* such a line, never None; so get_computer_move, when the acting player   *)
(* has no completing cell and the opponent has one, returns a completing   *)
(* cell of the opponent and does not reach the corner, centre and side     *)
(* rules.                                                                  *)
(***************************************************************************)
C16_BlockSearchComplete ==
    /\ (/\ ret.fn = "find_winning_move"
        /\ NoLineComplete(game_board)
        /\ CompletingCells(game_board, players[ret.player].marker) # {}) =>
           /\ ret.move # None
           /\ ret.move[1] \in CompletingCells(game_board, players[ret.player].marker)
    /\ (/\ ret.fn = "get_computer_move"
        /\ NoLineComplete(game_board)
        /\ CompletingCells(game_board, players[ret.player].marker) = {}
        /\ CompletingCells(game_board, players[1 - ret.player].marker) # {}) =>
           /\ ret.move # None
           /\ ret.move[1] \in CompletingCells(game_board, players[1 - ret.player].marker)

\* the human holds 1 and 2 only, cell 0 is free and no corner is taken: the
\* search for the human returns 0
C16_Witness ==
    /\ ret.fn = "find_winning_move" /\ ret.player = 0
    /\ NoLineComplete(game_board)
    /\ At(game_board, 1) = "X" /\ At(game_board, 2) = "X"
    /\ Count(game_board, "X") = 2
    /\ ~Marked(game_board, 0)
    /\ ret.move = <<0>>

(***************************************************************************)
(* C16 as stated: there is a board with no line complete on which a player *)
(* has two markers in a line and the third cell empty, and                 *)
(* find_winning_move for that player returns None.  The statement is about *)
(* all boards, whatever board the state holds.                             *)
(***************************************************************************)
C16_AsymmetricLayoutExists ==
    game_board = game_board =>
    \E cells \in Cells(0) \X Cells(1) \X Cells(2) \X Cells(3) \X Cells(4)
                 \X Cells(5) \X Cells(6) \X Cells(7) \X Cells(8) :
        \E board \in {[i \in 0..2 |-> [j \in 0..2 |-> cells[i * 3 + j + 1]]]} :
            /\ NoLineComplete(board)
            /\ \E k \in 0..1 :
                  /\ CompletingCells(board, players[k].marker) # {}
                  /\ find_winning_move(players[k], board) = None

(***************************************************************************)
(* C17: is_winner(human) and is_winner(computer) are never both true, so   *)
(* testing the human first in make_move never hides a win of the computer: *)
(* when the computer has three in a line the status is 'You lost!'.        *)
(***************************************************************************)
C17_OneWinner ==
    /\ ~(is_winner(game_board, human) /\ is_winner(game_board, computer))
    /\ ~(HasLine(game_board, "X") /\ HasLine(game_board, "O"))
    /\ is_winner(game_board, computer) => gamestatus = "You lost!"

\* the computer completed a line while the human had a completing cell
C17_Witness ==
    /\ is_winner(game_board, computer)
    /\ ~is_winner(game_board, human)
    /\ gamestatus = "You lost!"
    /\ call.moves # <<>>
    /\ CompletingCells(call.moves[Len(call.moves)].board, "X") # {}

(***************************************************************************)
(* C18: whichever player starts, whenever the program waits for a click    *)
(* and the game has not ended, Board.turn is 0; the test Board.turn == 1   *)
(* after a human move that does not end the game is true, so the           *)
(* computer's reply is never skipped and the human never places two        *)
(* markers without a computer move in between.                             *)
(***************************************************************************)
C18_TurnIsHumans ==
    /\ [](~game_has_ended(game_board) => turn = 0)
    /\ [][(/\ call'.moves # <<>>
           /\ ~game_has_ended([game_board EXCEPT
                  ![call'.position \div 3][call'.position % 3] = "X"])) =>
             /\ Len(call'.asks) = 1
             /\ Count(game_board', "O") = Count(game_board, "O") + 1]_vars
    /\ [][Count(game_board', "X") <= Count(game_board, "X") + 1]_vars

\* the computer started, a click was answered and the turn is the human's again
C18_Witness ==
    /\ starter = 1
    /\ call.op = "pressed"
    /\ Len(call.moves) = 2
    /\ ~game_has_ended(game_board)
    /\ turn = 0

====
